---- MODULE Spec2Model ----
(***************************************************************************)
(* gmsh_mesher: scripts/create_mesh.py (main), scripts/iges.py and         *)
(* scripts/elmer_config.py as a state machine.                             *)
(*                                                                         *)
(* Text is a sequence of one-character strings.  Every real number of the  *)
(* program (a length, a factor) is a fixed-point integer with five         *)
(* decimals: the value v is stored as v * One.  The kernel (gmsh) is the   *)
(* environment: its calls are logged in `calls`, and its answers are       *)
(* chosen from small sets.                                                 *)
(***************************************************************************)
EXTENDS Integers, Sequences, FiniteSets, TLC

(***************************************************************************)
(* Bounds of the model.                                                    *)
(***************************************************************************)
\* the largest number of solid volumes an imported file holds
MaxBodies == 2
\* the magnitude, in file units, of the coordinates the bodies are placed at
MaxCoord == 4

(***************************************************************************)
(* Fixed-point arithmetic.                                                 *)
(***************************************************************************)
\* round(x, 5) keeps five decimals: one unit of a stored number is 1e-5
One == 100000

Abs(x) == IF x < 0 THEN -x ELSE x

Min2(a, b) == IF a <= b THEN a ELSE b

Max2(a, b) == IF a >= b THEN a ELSE b

RECURSIVE GCD(_, _)
GCD(a, b) == IF b = 0 THEN Abs(a) ELSE GCD(b, a % b)

\* p/q (q > 0) rounded to the nearest integer, a tie going to the even one:
\* Python's round()
RoundHalfEven(p, q) ==
    LET f == p \div q
        r == p % q
    IN  IF 2 * r < q THEN f
        ELSE IF 2 * r > q THEN f + 1
        ELSE IF f % 2 = 0 THEN f ELSE f + 1

\* the product a * b of two stored numbers as the exact fraction <<p, q>>
\* of a stored number (reduced first, so that p stays in 32 bits)
Times(a, b) ==
    LET g == GCD(b, One)
    IN  IF g = 0 THEN <<0, 1>> ELSE <<a * (b \div g), One \div g>>

\* a stored number divided by the plain integer n > 0, as a fraction
Over(a, n) == <<a, n>>

\* round(x, 5) of a fraction of a stored number
Round5(x) == RoundHalfEven(x[1], x[2])

\* a float product whose value has at most five decimals (the inputs of the
\* model are chosen so), e.g. 400.0 * 0.001
Mul(a, b) == Round5(Times(a, b))

(***************************************************************************)
(* Text.                                                                   *)
(***************************************************************************)
UpperCase == <<"A","B","C","D","E","F","G","H","I","J","K","L","M",
               "N","O","P","Q","R","S","T","U","V","W","X","Y","Z">>

LowerCase == <<"a","b","c","d","e","f","g","h","i","j","k","l","m",
               "n","o","p","q","r","s","t","u","v","w","x","y","z">>

Digits == <<"0","1","2","3","4","5","6","7","8","9">>

Whitespace == {" ", "\n", "\t", "\r"}

IsDigit(c) == \E i \in 1..Len(Digits) : Digits[i] = c

DigitValue(c) == (CHOOSE i \in 1..Len(Digits) : Digits[i] = c) - 1

\* str.lower() and str.upper() of one character, as tables
LowerOf ==
    [c \in {UpperCase[i] : i \in 1..Len(UpperCase)} |->
        LowerCase[CHOOSE i \in 1..Len(UpperCase) : UpperCase[i] = c]]

UpperOf ==
    [c \in {LowerCase[i] : i \in 1..Len(LowerCase)} |->
        UpperCase[CHOOSE i \in 1..Len(LowerCase) : LowerCase[i] = c]]

ToLower(c) == IF c \in DOMAIN LowerOf THEN LowerOf[c] ELSE c

ToUpper(c) == IF c \in DOMAIN UpperOf THEN UpperOf[c] ELSE c

LowerText(s) == [i \in 1..Len(s) |-> ToLower(s[i])]

UpperText(s) == [i \in 1..Len(s) |-> ToUpper(s[i])]

\* s[from:] with a 0-based start, as Python slices
Drop(s, from) == SubSeq(s, from + 1, Len(s))

\* s[:n]
Take(s, n) == SubSeq(s, 1, Min2(n, Len(s)))

\* str.startswith
StartsWith(s, p) == Len(s) >= Len(p) /\ SubSeq(s, 1, Len(p)) = p

\* str.strip(): leading and trailing whitespace removed
Strip(s) ==
    LET keep == {i \in 1..Len(s) : s[i] \notin Whitespace}
    IN  IF keep = {} THEN <<>>
        ELSE SubSeq(s, CHOOSE i \in keep : \A j \in keep : i <= j,
                       CHOOSE i \in keep : \A j \in keep : i >= j)

\* str.isdigit(): not empty, and digits only
IsDigitText(s) == Len(s) > 0 /\ \A i \in 1..Len(s) : IsDigit(s[i])

\* int() of a digit string
RECURSIVE ParseInt(_)
ParseInt(s) ==
    IF Len(s) = 0 THEN 0
    ELSE 10 * ParseInt(SubSeq(s, 1, Len(s) - 1)) + DigitValue(s[Len(s)])

\* str.split(d) on a one-character delimiter
RECURSIVE Split(_, _)
Split(s, d) ==
    LET at == {i \in 1..Len(s) : s[i] = d}
    IN  IF at = {} THEN <<s>>
        ELSE LET i == CHOOSE k \in at : \A j \in at : k <= j
             IN  <<SubSeq(s, 1, i - 1)>> \o Split(SubSeq(s, i + 1, Len(s)), d)

\* ''.join(list)
RECURSIVE Concat(_)
Concat(ss) == IF Len(ss) = 0 THEN <<>> ELSE Head(ss) \o Concat(Tail(ss))

Spaces(n) == [i \in 1..n |-> " "]

(***************************************************************************)
(* scripts/iges.py                                                         *)
(***************************************************************************)
\* the result of a call: a value, or the exception it raised
Ok(v) == [ok |-> TRUE, value |-> v, error |-> "none"]

Raise(e) == [ok |-> FALSE, value |-> <<>>, error |-> e]

\* the column (1-based) of the section flag of an 80-column card
FlagColumn == 73

\* the number of data columns of a card
DataColumns == 72

\* the least number of Global Section fields
MinFields == 15

\* the 0-based index of the units-name field
UnitsField == 12

\* is_iges_file: f.readline().strip() of a file given as its lines, each with
\* its line break
FirstLine(file) == IF Len(file) = 0 THEN <<>> ELSE Strip(file[1])

\* a reader that takes any file that can be opened for an IGES file
AnyFileIsIges(file) == TRUE

\* iges.py lines 5-13
is_iges_file(file) ==
    LET first_line == FirstLine(file)
    IN  /\ StartsWith(first_line, <<"S">>)
        /\ IsDigitText(Strip(Drop(first_line, 1)))

\* the text matched by (.*): up to the first line break
UpToLineBreak(s) ==
    LET at == {i \in 1..Len(s) : s[i] = "\n"}
    IN  IF at = {} THEN s
        ELSE SubSeq(s, 1, (CHOOSE k \in at : \A j \in at : k <= j) - 1)

\* the number of leading digits of s: what (\d+) takes
LeadingDigits(s) ==
    LET stop == {i \in 1..Len(s) : ~IsDigit(s[i])}
    IN  IF stop = {} THEN Len(s)
        ELSE (CHOOSE k \in stop : \A j \in stop : k <= j) - 1

\* re.match(r'^(\d+)H(.*)', s)
HollerithMatch(s) ==
    LET d == LeadingDigits(s)
    IN  d >= 1 /\ Len(s) > d /\ s[d + 1] = "H"

decode_hollerith(s) ==
    IF HollerithMatch(s)
    THEN LET d == LeadingDigits(s)
             length == ParseInt(SubSeq(s, 1, d))
         IN  Take(UpToLineBreak(Drop(s, d + 1)), length)
    ELSE s

\* the Global Section lines: 'G' in column 73, the first 72 characters kept
RECURSIVE GlobalLines(_)
GlobalLines(lines) ==
    IF Len(lines) = 0 THEN <<>>
    ELSE LET line == Head(lines)
         IN  (IF Len(line) >= FlagColumn /\ line[FlagColumn] = "G"
              THEN <<SubSeq(line, 1, DataColumns)>> ELSE <<>>)
             \o GlobalLines(Tail(lines))

GlobalData(lines) == Concat(GlobalLines(lines))

\* global_data[2:].split(param_delimiter)
GlobalFields(global_data) == Split(Drop(global_data, 2), global_data[1])

get_iges_units(lines) ==
    LET global_data == GlobalData(lines)
    IN  IF Len(global_data) = 0 THEN Raise("ValueError")
        ELSE LET fields == GlobalFields(global_data)
             IN  IF Len(fields) < MinFields THEN Raise("ValueError")
                 ELSE Ok(decode_hollerith(Strip(fields[UnitsField + 1])))

(***************************************************************************)
(* scripts/elmer_config.py                                                 *)
(***************************************************************************)
ShapesPrefix == <<"S","h","a","p","e","s","/">>

Magnet == ShapesPrefix \o <<"m","a","g","n","e","t","_">>

\* the rule table of name_to_material, in the order of the dict
cases == <<
    [pattern |-> ShapesPrefix \o <<"a","i","r">>, material_id |-> 1],
    [pattern |-> Magnet \o <<"1","_","0","_","0">>, material_id |-> 2],
    [pattern |-> Magnet \o <<"-","1","_","0","_","0">>, material_id |-> 3],
    [pattern |-> Magnet \o <<"0","_","1","_","0">>, material_id |-> 4],
    [pattern |-> Magnet \o <<"0","_","-","1","_","0">>, material_id |-> 5],
    [pattern |-> Magnet \o <<"0","_","0","_","1">>, material_id |-> 6],
    [pattern |-> Magnet \o <<"0","_","0","_","-","1">>, material_id |-> 7],
    [pattern |-> ShapesPrefix \o <<"i","r","o","n">>, material_id |-> 8] >>

\* a match that tells upper case from lower case
MatchCase(pattern, name) == StartsWith(name, pattern)

\* re.match("^" + pattern, name, re.IGNORECASE) for a pattern of literal
\* characters
MatchIgnoreCase(pattern, name) ==
    StartsWith(LowerText(name), LowerText(pattern))

\* the rules from index i on, in order: the first that matches returns
RECURSIVE MaterialFrom(_, _)
MaterialFrom(i, name) ==
    IF i > Len(cases) THEN Raise("ValueError")
    ELSE IF MatchIgnoreCase(cases[i].pattern, name)
         THEN Ok(cases[i].material_id)
         ELSE MaterialFrom(i + 1, name)

name_to_material(name) == MaterialFrom(1, name)

\* the functions the module elmer_config defines
ElmerConfigAttributes == {"name_to_material", "generate"}

\* elmer_config.name_to_body_force(name): the attribute lookup comes first
name_to_body_force(name) ==
    IF "name_to_body_force" \in ElmerConfigAttributes
    THEN Ok(0)
    ELSE Raise("AttributeError")

(***************************************************************************)
(* The input files of the model, each the sequence of its lines.           *)
(***************************************************************************)
\* an 80-column card: 72 data columns, the section flag, the sequence number
Card(data, flag) ==
    data \o Spaces(DataColumns - Len(data)) \o <<flag>>
         \o Spaces(6) \o <<"1", "\n">>

\* fields joined by the delimiter d
RECURSIVE Join(_, _)
Join(fields, d) ==
    IF Len(fields) = 0 THEN <<>>
    ELSE IF Len(fields) = 1 THEN fields[1]
    ELSE fields[1] \o <<d>> \o Join(Tail(fields), d)

\* a Global Section record of n fields whose field 12 is `units`, the
\* delimiters "," and ";" in front and field 3 `wide` characters long
GlobalRecord(units, n, wide) ==
    <<",", ";">> \o
    Join([i \in 1..n |-> IF i = UnitsField + 1 THEN units
                         ELSE IF i = 4 THEN Spaces(wide)
                         ELSE <<"a">>], ",")

\* the record cut into cards of 72 data columns
RECURSIVE Cards(_)
Cards(rec) ==
    IF Len(rec) <= DataColumns THEN <<Card(rec, "G")>>
    ELSE <<Card(SubSeq(rec, 1, DataColumns), "G")>>
         \o Cards(SubSeq(rec, DataColumns + 1, Len(rec)))

StartCard == Card(<<>>, "S")

DirectoryCard == Card(<<"1", "1", "0">>, "D")

IgesFile(units) ==
    <<StartCard>> \o Cards(GlobalRecord(units, MinFields, 1)) \o <<DirectoryCard>>

Files == <<
    \* Hollerith and plain unit names of the supported units
    IgesFile(<<"2", "H", "M", "M">>),
    IgesFile(<<" ", "C", "M", " ">>),
    IgesFile(<<"1", "H", "M">>),
    \* units that are not supported
    IgesFile(<<"2", "H", "I", "N">>),
    IgesFile(<<"m", "m">>),
    \* a declared length beyond the text
    IgesFile(<<"5", "H", "I", "N">>),
    \* a Global Section of two cards, a directory card between them
    <<StartCard, Cards(GlobalRecord(<<"2", "H", "F", "T">>, MinFields, 60))[1],
      DirectoryCard, Cards(GlobalRecord(<<"2", "H", "F", "T">>, MinFields, 60))[2]>>,
    \* a start line with no blank between the marker and the number
    <<<<"S", "1", "\n">>>> \o Cards(GlobalRecord(<<"U", "M">>, MinFields + 1, 1)),
    \* no Global Section
    <<StartCard, DirectoryCard>>,
    \* the flag in a line shorter than 73 characters
    <<StartCard, <<"G", "\n">>, Spaces(DataColumns) \o <<"\n">>>>,
    \* one field short
    <<StartCard>> \o Cards(GlobalRecord(<<"2", "H", "M", "M">>, MinFields - 1, 1)),
    \* not an IGES start line, the Global Section in order
    <<<<"s", "o", "l", "i", "d", "\n">>>> \o Cards(GlobalRecord(<<"M", "M">>, MinFields, 1)),
    <<<<"S", "T", "E", "P", "\n">>>> \o Cards(GlobalRecord(<<"M", "M">>, MinFields, 1)),
    <<Card(<<"p", "a", "r", "t">>, "S")>> \o Cards(GlobalRecord(<<"M", "M">>, MinFields, 1)),
    \* an empty file
    <<>> >>

\* os.path.exists(input_file) is false for this one
MissingFile == 0

InputFiles == {MissingFile} \cup (1..Len(Files))

(***************************************************************************)
(* scripts/create_mesh.py: the state of one run of main.                   *)
(***************************************************************************)
VARIABLES
    pc,                  \* the stage main is about to run
    stages,              \* the stages run so far, in order
    error,               \* the exception that ended the try block, or "none"
    calls,               \* the kernel calls made so far, in order
    args,                \* the parsed command line
    air_box_padding, air_mesh_size, refinement_factor,
    refine_dist_min, refine_dist_max, auto_air_mesh_factor,
    input_file,          \* the file args.input_file names
    unit_name, scale_factor,
    volumes,             \* kernel: the solid volumes, [tag, lo, hi]
    duplicates,          \* what removeAllDuplicates returned
    object_volumes,      \* the tags of the imported volumes
    bbox,                \* xmin, ymin, zmin, xmax, ymax, zmax
    offset,              \* x_offset, y_offset, z_offset
    surface_tags,
    size_min,
    air_volume,          \* kernel: the air box, [tag, lo, hi], tag 0 before addBox
    threshold,           \* kernel: the numbers of the Threshold field
    written,             \* the files written
    elmer,               \* what the solver configuration was rendered from
    entity_names,        \* the names getEntityName gave, in order
    arg, result          \* a function of iges.py or elmer_config.py applied
                         \* on its own: its argument and what it returned

sizing == <<air_box_padding, air_mesh_size, refinement_factor,
            refine_dist_min, refine_dist_max, auto_air_mesh_factor>>

geometry == <<volumes, duplicates, object_volumes, bbox, offset, surface_tags,
              size_min, air_volume, threshold>>

library == <<arg, result>>

vars == <<pc, stages, error, calls, args, sizing, input_file, unit_name,
          scale_factor, geometry, written, elmer, entity_names, library>>

\* a plain number as a stored number
Fx(n) == n * One

\* the argparse defaults
DefaultAirMeshSize == 0

DefaultRefinementFactor == 2000

DefaultAirBoxPadding == Fx(400)

DefaultRefineDistMin == Fx(4)

DefaultRefineDistMax == Fx(40)

\* the values the command line may give
AirMeshSizes == {DefaultAirMeshSize, Fx(5)}

RefinementFactors == {DefaultRefinementFactor, 5000}

AirBoxPaddings == {DefaultAirBoxPadding, Fx(1)}

RefineDistMins == {DefaultRefineDistMin, Fx(50)}

RefineDistMaxs == {DefaultRefineDistMax, Fx(60)}

ArgSpace ==
    [air_mesh_size : AirMeshSizes, refinement_factor : RefinementFactors,
     air_box_padding : AirBoxPaddings, refine_dist_min : RefineDistMins,
     refine_dist_max : RefineDistMaxs, draft : BOOLEAN, fine : BOOLEAN,
     multi_thread : BOOLEAN, generate_elmer_files : BOOLEAN]

NoArgs ==
    [air_mesh_size |-> 0, refinement_factor |-> 0, air_box_padding |-> 0,
     refine_dist_min |-> 0, refine_dist_max |-> 0, draft |-> FALSE,
     fine |-> FALSE, multi_thread |-> FALSE, generate_elmer_files |-> FALSE]

Origin == <<0, 0, 0>>

NoBox == [xmin |-> 0, ymin |-> 0, zmin |-> 0, xmax |-> 0, ymax |-> 0, zmax |-> 0]

NoThreshold == [set |-> FALSE, SizeMin |-> 0, SizeMax |-> 0, DistMin |-> 0, DistMax |-> 0]

NoElmer == [bodies |-> <<>>, air_boundaries |-> <<>>]

\* no function applied yet
Pending == [ok |-> FALSE, value |-> <<>>, error |-> "pending"]

\* main is about to start
MainInit ==
    /\ pc = "initialize"
    /\ stages = <<>>
    /\ error = "none"
    /\ calls = <<>>
    /\ args = NoArgs
    /\ air_box_padding = 0 /\ air_mesh_size = 0 /\ refinement_factor = 0
    /\ refine_dist_min = 0 /\ refine_dist_max = 0 /\ auto_air_mesh_factor = 0
    /\ input_file = MissingFile
    /\ unit_name = <<>> /\ scale_factor = 0
    /\ volumes = <<>> /\ duplicates = FALSE /\ object_volumes = <<>>
    /\ bbox = NoBox /\ offset = Origin /\ surface_tags = <<>>
    /\ size_min = 0
    /\ air_volume = [tag |-> 0, lo |-> Origin, hi |-> Origin]
    /\ threshold = NoThreshold
    /\ written = {}
    /\ elmer = NoElmer
    /\ entity_names = <<>>

Init == MainInit /\ arg = <<>> /\ result = Pending

\* the stage `here` runs to its end, making the kernel calls `made`
Step(here, next, made) ==
    /\ pc = here
    /\ pc' = next
    /\ stages' = Append(stages, here)
    /\ calls' = calls \o made
    /\ error' = error

\* a failure that leaves main without passing through the finally clause
FailWithoutFinally(here, e, made) ==
    /\ pc = here
    /\ pc' = "done"
    /\ stages' = Append(stages, here)
    /\ calls' = calls \o made
    /\ error' = e

\* the stage `here` raises e after the kernel calls `made`: control leaves the
\* try block for the finally clause (the except clause only prints)
Fail(here, e, made) ==
    /\ pc = here
    /\ pc' = "finally"
    /\ stages' = Append(stages, here)
    /\ calls' = calls \o made
    /\ error' = e

\* lines 9-12
Initialize ==
    /\ Step("initialize", "parse_args", <<"initialize", "option.setNumber">>)
    /\ UNCHANGED <<args, sizing, input_file, unit_name, scale_factor, geometry,
                   written, elmer, entity_names, library>>

\* lines 80-97: the preset
AutoAirMeshFactor(a) == IF a.draft THEN 20 ELSE IF a.fine THEN 40 ELSE 30

PresetRefinementFactor(a) ==
    IF ~a.draft /\ a.fine
    THEN LET r1 == IF a.refinement_factor = DefaultRefinementFactor
                   THEN 1500 ELSE a.refinement_factor
         IN  IF a.refine_dist_max = DefaultRefineDistMax THEN Fx(60) ELSE r1
    ELSE a.refinement_factor

\* lines 14-97
ParseArgs ==
    /\ pc = "parse_args"
    /\ \E a \in ArgSpace :
        /\ args' = a
        /\ air_box_padding' = a.air_box_padding
        /\ air_mesh_size' = a.air_mesh_size
        /\ refinement_factor' = PresetRefinementFactor(a)
        /\ refine_dist_min' = a.refine_dist_min
        /\ refine_dist_max' = a.refine_dist_max
        /\ auto_air_mesh_factor' = AutoAirMeshFactor(a)
    /\ Step("parse_args", "multi_thread", <<>>)
    /\ UNCHANGED <<input_file, unit_name, scale_factor, geometry, written, elmer, entity_names, library>>

\* line 68: parse_args() leaves with SystemExit (a bad option, --help)
ParseArgsExit ==
    /\ Fail("parse_args", "SystemExit", <<>>)
    /\ UNCHANGED <<args, sizing, input_file, unit_name, scale_factor, geometry,
                   written, elmer, entity_names, library>>

\* os.cpu_count() gives None when the count is unknown
None == -1

CpuCounts == {None, 2, 8}

\* lines 101-107
MultiThread ==
    /\ pc = "multi_thread"
    /\ \E cores \in CpuCounts :
        IF ~args.multi_thread
        THEN Step("multi_thread", "check_file", <<>>)
        ELSE IF cores = None
        THEN Fail("multi_thread", "TypeError", <<"option.getNumber">>)
        ELSE IF cores > 2
        THEN Step("multi_thread", "check_file",
                  <<"option.getNumber", "option.setNumber">>)
        ELSE Step("multi_thread", "check_file", <<"option.getNumber">>)
    /\ UNCHANGED <<args, sizing, input_file, unit_name, scale_factor, geometry,
                   written, elmer, entity_names, library>>

\* lines 109-113
CheckFile ==
    /\ pc = "check_file"
    /\ \E f \in InputFiles :
        /\ input_file' = f
        /\ IF f = MissingFile
           THEN Fail("check_file", "FileNotFoundError", <<>>)
           ELSE IF ~is_iges_file(Files[f])
           THEN Fail("check_file", "FileNotFoundError", <<>>)
           ELSE Step("check_file", "units", <<>>)
    /\ UNCHANGED <<args, sizing, unit_name, scale_factor, geometry, written, elmer, entity_names, library>>

MM == <<"M", "M">>

CM == <<"C", "M">>

M == <<"M">>

\* a conversion that takes every other units name for metres
ScaleFactorOrMetres(name) ==
    IF name = MM THEN 100
    ELSE IF name = CM THEN 1000
    ELSE One

\* lines 118-125: the scale factor of a units name, 0 where main raises
ScaleFactor(name) ==
    IF name = MM THEN 100
    ELSE IF name = CM THEN 1000
    ELSE IF name = M THEN One
    ELSE 0

\* iges.get_iges_units(input_file), file by file
UnitsOf == [f \in 1..Len(Files) |-> get_iges_units(Files[f])]

\* lines 115-125
Units ==
    /\ pc = "units"
    /\ LET u == UnitsOf[input_file]
       IN  IF ~u.ok
           THEN /\ Fail("units", u.error, <<>>)
                /\ UNCHANGED <<unit_name, scale_factor>>
           ELSE /\ unit_name' = u.value
                /\ IF ScaleFactor(u.value) = 0
                   THEN /\ Fail("units", "FileNotFoundError", <<>>)
                        /\ UNCHANGED scale_factor
                   ELSE /\ Step("units", "import", <<>>)
                        /\ scale_factor' = ScaleFactor(u.value)
    /\ UNCHANGED <<args, sizing, input_file, geometry, written, elmer, entity_names, library>>

(***************************************************************************)
(* The kernel's geometry.                                                  *)
(***************************************************************************)
\* the side of a body and the distance between two bodies, in file units
BodySide == 1

BodyGap == 10

Los == <<-MaxCoord, 0, MaxCoord>>

\* the corners the first body is placed at: every axis sees every position
Corners ==
    {<<Los[i], Los[(i % 3) + 1], Los[((i + 1) % 3) + 1]>> : i \in 1..3}

\* n unit cubes in a row along x, the first at corner c
Scene(c, n) ==
    [k \in 1..n |->
        [tag |-> k,
         lo |-> <<Fx(c[1] + (k - 1) * BodyGap), Fx(c[2]), Fx(c[3])>>,
         hi |-> <<Fx(c[1] + (k - 1) * BodyGap + BodySide), Fx(c[2] + BodySide),
                  Fx(c[3] + BodySide)>>]]

Scenes == {Scene(c, n) : c \in Corners, n \in 0..MaxBodies}

RECURSIVE MinOf(_)
MinOf(S) == LET x == CHOOSE y \in S : TRUE
            IN  IF S = {x} THEN x ELSE Min2(x, MinOf(S \ {x}))

RECURSIVE MaxOf(_)
MaxOf(S) == LET x == CHOOSE y \in S : TRUE
            IN  IF S = {x} THEN x ELSE Max2(x, MaxOf(S \ {x}))

\* gmsh.model.getBoundingBox(-1, -1): the box around every volume
BoundingBox(vols) ==
    IF Len(vols) = 0 THEN NoBox
    ELSE [xmin |-> MinOf({vols[k].lo[1] : k \in 1..Len(vols)}),
          ymin |-> MinOf({vols[k].lo[2] : k \in 1..Len(vols)}),
          zmin |-> MinOf({vols[k].lo[3] : k \in 1..Len(vols)}),
          xmax |-> MaxOf({vols[k].hi[1] : k \in 1..Len(vols)}),
          ymax |-> MaxOf({vols[k].hi[2] : k \in 1..Len(vols)}),
          zmax |-> MaxOf({vols[k].hi[3] : k \in 1..Len(vols)})]

\* gmsh.model.occ.dilate(entities, 0, 0, 0, f, f, f)
Dilate(vols, f) ==
    [k \in 1..Len(vols) |->
        [vols[k] EXCEPT !.lo = [i \in 1..3 |-> Mul(vols[k].lo[i], f)],
                        !.hi = [i \in 1..3 |-> Mul(vols[k].hi[i], f)]]]

\* gmsh.model.occ.translate(dimTags, dx, dy, dz) of the volumes tagged in tags
Translate(vols, tags, d) ==
    [k \in 1..Len(vols) |->
        IF \E j \in 1..Len(tags) : tags[j] = vols[k].tag
        THEN [vols[k] EXCEPT !.lo = [i \in 1..3 |-> vols[k].lo[i] + d[i]],
                             !.hi = [i \in 1..3 |-> vols[k].hi[i] + d[i]]]
        ELSE vols[k]]

\* gmsh.model.occ.addBox(x, y, z, dx, dy, dz): the box between the corner and
\* the corner plus the extents
Box(tag, p, d) ==
    [tag |-> tag,
     lo |-> [i \in 1..3 |-> Min2(p[i], p[i] + d[i])],
     hi |-> [i \in 1..3 |-> Max2(p[i], p[i] + d[i])]]

\* the surfaces the kernel enumerates for n boxes
SurfaceTags(n) == [i \in 1..(6 * n) |-> i]

(***************************************************************************)
(* scripts/create_mesh.py: import to mesh.                                 *)
(***************************************************************************)
\* lines 127-134
Import ==
    /\ pc = "import"
    /\ \E scene \in Scenes : volumes' = scene
    /\ Step("import", "scale", <<"option.setNumber", "importShapes",
                                 "synchronize", "getBoundingBox">>)
    /\ UNCHANGED <<args, sizing, input_file, unit_name, scale_factor,
                   duplicates, object_volumes, bbox, offset, surface_tags,
                   size_min, air_volume, threshold, written, elmer, entity_names, library>>

\* lines 136-160
Scale ==
    /\ pc = "scale"
    /\ IF scale_factor # One
       THEN /\ air_box_padding' = Mul(air_box_padding, scale_factor)
            /\ air_mesh_size' = Mul(air_mesh_size, scale_factor)
            /\ refine_dist_min' = Mul(refine_dist_min, scale_factor)
            /\ refine_dist_max' = Mul(refine_dist_max, scale_factor)
            /\ volumes' = Dilate(volumes, scale_factor)
            /\ Step("scale", "remove_duplicates",
                    <<"getEntities", "dilate", "synchronize", "getBoundingBox",
                      "synchronize">>)
       ELSE /\ UNCHANGED <<air_box_padding, air_mesh_size, refine_dist_min,
                           refine_dist_max, volumes>>
            /\ Step("scale", "remove_duplicates", <<"synchronize">>)
    /\ UNCHANGED <<args, refinement_factor, auto_air_mesh_factor, input_file,
                   unit_name, scale_factor, duplicates, object_volumes, bbox,
                   offset, surface_tags, size_min, air_volume, threshold,
                   written, elmer, entity_names, library>>

\* a duplicate removal whose report main ignores
IgnoreDuplicates ==
    /\ pc = "remove_duplicates"
    /\ \E found \in BOOLEAN :
        /\ duplicates' = found
        /\ Step("remove_duplicates", "volumes",
                <<"removeAllDuplicates", "synchronize">>)
    /\ UNCHANGED <<args, sizing, input_file, unit_name, scale_factor, volumes,
                   object_volumes, bbox, offset, surface_tags, size_min,
                   air_volume, threshold, written, elmer, entity_names, library>>

\* lines 162-167
RemoveDuplicates ==
    /\ pc = "remove_duplicates"
    /\ \E found \in BOOLEAN :
        /\ duplicates' = found
        /\ IF found
           THEN Fail("remove_duplicates", "ValueError", <<"removeAllDuplicates">>)
           ELSE Step("remove_duplicates", "volumes",
                     <<"removeAllDuplicates", "synchronize">>)
    /\ UNCHANGED <<args, sizing, input_file, unit_name, scale_factor, volumes,
                   object_volumes, bbox, offset, surface_tags, size_min,
                   air_volume, threshold, written, elmer, entity_names, library>>

\* lines 169-188
Volumes ==
    /\ pc = "volumes"
    /\ object_volumes' = [k \in 1..Len(volumes) |-> volumes[k].tag]
    /\ IF Len(volumes) = 0
       THEN Fail("volumes", "ValueError", <<"getEntities">>)
       ELSE Step("volumes", "normalize",
                 <<"getEntities", "option.setNumber", "option.setNumber",
                   "option.setNumber", "option.setNumber">>)
    /\ UNCHANGED <<args, sizing, input_file, unit_name, scale_factor, volumes,
                   duplicates, bbox, offset, surface_tags, size_min,
                   air_volume, threshold, written, elmer, entity_names, library>>

\* lines 197-199
Deficit(min, padding) == IF min - padding < 0 THEN -(min - padding) ELSE 0

\* lines 190-207
Normalize ==
    /\ pc = "normalize"
    /\ LET b == BoundingBox(volumes)
           d == <<Deficit(b.xmin, air_box_padding),
                  Deficit(b.ymin, air_box_padding),
                  Deficit(b.zmin, air_box_padding)>>
       IN  /\ bbox' = b
           /\ offset' = d
           /\ volumes' = Translate(volumes, object_volumes, d)
    /\ surface_tags' = SurfaceTags(Len(volumes))
    /\ Step("normalize", "sizes",
            <<"getBoundingBox", "translate", "synchronize", "getEntities">>)
    /\ UNCHANGED <<args, sizing, input_file, unit_name, scale_factor,
                   duplicates, object_volumes, size_min, air_volume, threshold,
                   written, elmer, entity_names, library>>

\* lines 209-215
AirBoxExtent(b, padding) ==
    [xmin |-> 0, ymin |-> 0, zmin |-> 0,
     xmax |-> b.xmax + 2 * padding,
     ymax |-> b.ymax + 2 * padding,
     zmax |-> b.zmax + 2 * padding]

\* lines 218-219
AirMeshSize(given, b, factor) ==
    IF given = 0
    THEN Round5(Over((b.xmax - b.xmin) + (b.ymax - b.ymin) + (b.zmax - b.zmin),
                     factor))
    ELSE given

\* line 222
SizeMin(outer, factor) == Round5(Times(outer, factor))

\* lines 209-228
Sizes ==
    /\ pc = "sizes"
    /\ LET b == AirBoxExtent(bbox, air_box_padding)
           outer == AirMeshSize(air_mesh_size, b, auto_air_mesh_factor)
       IN  /\ bbox' = b
           /\ air_mesh_size' = outer
           /\ size_min' = SizeMin(outer, refinement_factor)
    /\ Step("sizes", "add_box", <<>>)
    /\ UNCHANGED <<args, air_box_padding, refinement_factor, refine_dist_min,
                   refine_dist_max, auto_air_mesh_factor, input_file, unit_name,
                   scale_factor, volumes, duplicates, object_volumes, offset,
                   surface_tags, air_volume, threshold, written, elmer, entity_names, library>>

\* lines 230-238; the kernel refuses a box with an extent of 0
AddBox ==
    /\ pc = "add_box"
    /\ LET d == <<bbox.xmax - bbox.xmin, bbox.ymax - bbox.ymin,
                  bbox.zmax - bbox.zmin>>
       IN  IF \E i \in 1..3 : d[i] = 0
           THEN /\ Fail("add_box", "Exception", <<"addBox">>)
                /\ UNCHANGED air_volume
           ELSE /\ air_volume' = Box(Len(volumes) + 1,
                                     <<bbox.xmin, bbox.ymin, bbox.zmin>>, d)
                /\ Step("add_box", "fragment",
                        <<"addBox", "synchronize", "getBoundingBox">>)
    /\ UNCHANGED <<args, sizing, input_file, unit_name, scale_factor, volumes,
                   duplicates, object_volumes, bbox, offset, surface_tags,
                   size_min, threshold, written, elmer, entity_names, library>>

\* lines 240-260 (one entry of the log for each loop of addPhysicalGroup)
Fragment ==
    /\ Step("fragment", "fields",
            <<"fragment", "synchronize", "getEntities", "addPhysicalGroup",
              "getEntities", "addPhysicalGroup">>)
    /\ UNCHANGED <<args, sizing, input_file, unit_name, scale_factor, geometry,
                   written, elmer, entity_names, library>>

\* lines 262-275
Fields ==
    /\ pc = "fields"
    /\ threshold' = [set |-> TRUE, SizeMin |-> size_min, SizeMax |-> air_mesh_size,
                     DistMin |-> refine_dist_min, DistMax |-> refine_dist_max]
    /\ Step("fields", "mesh",
            <<"field.add", "field.setNumbers", "field.add", "field.setNumber",
              "field.setNumber", "field.setNumber", "field.setNumber",
              "field.setNumber", "field.setAsBackgroundMesh">>)
    /\ UNCHANGED <<args, sizing, input_file, unit_name, scale_factor, volumes,
                   duplicates, object_volumes, bbox, offset, surface_tags,
                   size_min, air_volume, written, elmer, entity_names, library>>

\* lines 277-283
Mesh ==
    /\ written' = written \cup {"output_file"}
    /\ Step("mesh", "elmer", <<"generate", "write">>)
    /\ UNCHANGED <<args, sizing, input_file, unit_name, scale_factor, geometry,
                   elmer, entity_names, library>>

(***************************************************************************)
(* scripts/create_mesh.py: the solver configuration, and the way out.      *)
(***************************************************************************)
\* the entity names the kernel may hold for a body
BodyNames ==
    {ShapesPrefix \o <<"i","r","o","n","_","1">>,
     LowerText(Magnet) \o <<"0","_","0","_","-","1">>,
     ShapesPrefix \o <<"u","n","k","n","o","w","n","_","p","a","r","t">>}

\* the surface enumerations the kernel may give after the fragment
SurfaceLists ==
    {SurfaceTags(n) : n \in 1..(MaxBodies + 1)} \cup
    {[i \in 1..(6 * n) |-> 2 * i + 1] : n \in 1..(MaxBodies + 1)}

\* lines 289-296: the bodies from the i-th on, or the first exception
RECURSIVE BodiesFrom(_, _, _)
BodiesFrom(i, tags, names) ==
    IF i > Len(tags) THEN Ok(<<>>)
    ELSE LET material == name_to_material(names[i])
             body_force == name_to_body_force(names[i])
         IN  IF ~material.ok THEN material
             ELSE IF ~body_force.ok THEN body_force
             ELSE LET rest == BodiesFrom(i + 1, tags, names)
                  IN  IF ~rest.ok THEN rest
                      ELSE Ok(<<[name |-> names[i], id |-> tags[i],
                                 material |-> material.value,
                                 body_force |-> body_force.value]>>
                              \o rest.value)

\* the number of bodies whose name was asked for
RECURSIVE Asked(_, _)
Asked(i, names) ==
    IF i > Len(names) THEN Len(names)
    ELSE IF name_to_material(names[i]).ok /\ name_to_body_force(names[i]).ok
         THEN Asked(i + 1, names)
         ELSE i

\* line 298
AirBody(tag) ==
    [name |-> <<"A","i","r">>, id |-> tag,
     material |-> name_to_material(ShapesPrefix \o <<"a","i","r">>).value,
     body_force |-> None]

\* line 305: list(range(len(all_surfaces) - 5, len(all_surfaces) + 1))
AirBoundarySurfaceIds(all_surfaces) ==
    [i \in 1..6 |-> Len(all_surfaces) - 6 + i]

\* lines 285-321
Elmer ==
    /\ pc = "elmer"
    /\ IF ~args.generate_elmer_files
       THEN /\ Step("elmer", "finally", <<>>)
            /\ UNCHANGED <<written, elmer, entity_names>>
       ELSE \E names \in [1..Len(object_volumes) -> BodyNames] :
              LET bodies == BodiesFrom(1, object_volumes, names)
                  asked == Asked(1, names)
                  made == [i \in 1..asked |-> "getEntityName"]
              IN  /\ entity_names' = SubSeq(names, 1, asked)
                  /\ IF ~bodies.ok
                     THEN /\ Fail("elmer", bodies.error, made)
                          /\ UNCHANGED <<written, elmer>>
                     ELSE \E all_surfaces \in SurfaceLists :
                          /\ elmer' =
                               [bodies |-> Append(bodies.value,
                                                  AirBody(air_volume.tag)),
                                air_boundaries |->
                                    AirBoundarySurfaceIds(all_surfaces)]
                          /\ written' = written \cup {"elmer_config_file",
                                                      "ELMERSOLVER_STARTINFO"}
                          /\ Step("elmer", "finally", made \o <<"getEntities">>)
    /\ UNCHANGED <<args, sizing, input_file, unit_name, scale_factor, geometry,
                   library>>

\* the kernel calls that may raise, by stage: the calls of the stage up to
\* the one that raises
KernelFailures ==
    {[stage |-> "initialize", made |-> <<"initialize">>],
     [stage |-> "import", made |-> <<"option.setNumber", "importShapes">>],
     [stage |-> "add_box", made |-> <<"addBox">>],
     [stage |-> "fragment", made |-> <<"fragment">>],
     [stage |-> "mesh", made |-> <<"generate">>],
     [stage |-> "mesh", made |-> <<"generate", "write">>]}

\* a kernel call raises
KernelError ==
    /\ \E f \in KernelFailures : Fail(f.stage, "Exception", f.made)
    /\ UNCHANGED <<args, sizing, input_file, unit_name, scale_factor, geometry,
                   written, elmer, entity_names, library>>

\* lines 327-328
Finalize ==
    /\ pc = "finally"
    /\ pc' = "done"
    /\ stages' = Append(stages, "finally")
    /\ calls' = Append(calls, "finalize")
    /\ UNCHANGED <<error, args, sizing, input_file, unit_name, scale_factor,
                   geometry, written, elmer, entity_names, library>>

Next ==
    \/ Initialize \/ ParseArgs \/ ParseArgsExit \/ MultiThread \/ CheckFile
    \/ Units \/ Import \/ Scale \/ RemoveDuplicates \/ Volumes \/ Normalize
    \/ Sizes \/ AddBox \/ Fragment \/ Fields \/ Mesh \/ Elmer \/ KernelError
    \/ Finalize

Spec == Init /\ [][Next]_vars

(***************************************************************************)
(* What a state records of the run so far.                                 *)
(***************************************************************************)
Called(c) == \E i \in 1..Len(calls) : calls[i] = c

Count(c) == Cardinality({i \in 1..Len(calls) : calls[i] = c})

Ran(stage) == \E i \in 1..Len(stages) : stages[i] = stage

Ended == pc \in {"finally", "done"}

Inch == <<"I", "N">>

(***************************************************************************)
(* C1: whenever main reaches the threshold-field setup, the numbers it     *)
(* hands to the kernel satisfy SizeMin <= SizeMax and DistMin <= DistMax   *)
(* and all four are strictly positive.                                     *)
(***************************************************************************)
C1_PlanIsValid ==
    threshold.set =>
        /\ threshold.SizeMin <= threshold.SizeMax
        /\ threshold.DistMin <= threshold.DistMax
        /\ threshold.SizeMin > 0 /\ threshold.SizeMax > 0
        /\ threshold.DistMin > 0 /\ threshold.DistMax > 0

(***************************************************************************)
(* C2: with --fine and a refinement factor given on the command line that  *)
(* is not the default, the factor in use is the given one, and the inner   *)
(* size is round(outer_size * given factor, 5).                            *)
(***************************************************************************)
C2_ExplicitFactorIsKept ==
    (Ran("parse_args") /\ args.fine
        /\ args.refinement_factor # DefaultRefinementFactor) =>
        /\ refinement_factor = args.refinement_factor
        /\ Ran("sizes") =>
               size_min = Round5(Times(air_mesh_size, args.refinement_factor))

(***************************************************************************)
(* C3: the air box is the bounding box of the bodies where they finally    *)
(* are, grown by the padding on each of its six faces; every body lies     *)
(* inside the air box.                                                     *)
(***************************************************************************)
C3_AirBoxPadsTheBodies ==
    air_volume.tag # 0 =>
        LET b == BoundingBox(volumes)
        IN  /\ air_volume.lo = <<b.xmin - air_box_padding,
                                 b.ymin - air_box_padding,
                                 b.zmin - air_box_padding>>
            /\ air_volume.hi = <<b.xmax + air_box_padding,
                                 b.ymax + air_box_padding,
                                 b.zmax + air_box_padding>>
            /\ \A k \in 1..Len(volumes) : \A i \in 1..3 :
                   /\ air_volume.lo[i] <= volumes[k].lo[i]
                   /\ volumes[k].hi[i] <= air_volume.hi[i]

(***************************************************************************)
(* C4: once the air box exists its minimum corner is (0,0,0), no body has  *)
(* a negative coordinate, and the bodies are where the file put them       *)
(* relative to each other (BodyGap apart along x, scaled).                 *)
(***************************************************************************)
C4_AirBoxStartsAtOrigin ==
    air_volume.tag # 0 =>
        /\ air_volume.lo = Origin
        /\ \A k \in 1..Len(volumes) : \A i \in 1..3 : volumes[k].lo[i] >= 0
        /\ \A k \in 1..Len(volumes) :
               /\ volumes[k].lo[1] - volumes[1].lo[1]
                      = Mul(Fx((k - 1) * BodyGap), scale_factor)
               /\ volumes[k].lo[2] = volumes[1].lo[2]
               /\ volumes[k].lo[3] = volumes[1].lo[3]

(***************************************************************************)
(* C5: the scale factor is 0.001 for MM, 0.01 for CM and 1 for M; for any  *)
(* other units name the run has failed with nothing imported, scaled or    *)
(* meshed, and no factor was chosen.  scale(MM) * 1000 = scale(M) and      *)
(* scale(CM) * 100 = scale(M).                                             *)
(***************************************************************************)
C5_ScaleFactorOfUnits ==
    /\ ScaleFactor(MM) * 1000 = ScaleFactor(M)
    /\ ScaleFactor(CM) * 100 = ScaleFactor(M)
    /\ (Ran("units") /\ UnitsOf[input_file].ok) =>
          IF unit_name = MM THEN scale_factor * 1000 = One
          ELSE IF unit_name = CM THEN scale_factor * 100 = One
          ELSE IF unit_name = M THEN scale_factor = One
          ELSE /\ scale_factor = 0
               /\ error # "none" /\ Ended
               /\ ~Called("importShapes") /\ ~Called("dilate")
               /\ ~Called("generate") /\ ~Called("write")

C5_Witness ==
    pc = "done" /\ unit_name = Inch /\ error = "FileNotFoundError"

(***************************************************************************)
(* C6: removeAllDuplicates is called before fragment; when it reports      *)
(* duplicates the run fails, and fragment, generate and write are never    *)
(* called.                                                                 *)
(***************************************************************************)
C6_DuplicatesStopTheRun ==
    /\ \A i \in 1..Len(calls) :
           calls[i] = "fragment" =>
               \E j \in 1..(i - 1) : calls[j] = "removeAllDuplicates"
    /\ duplicates =>
           /\ error = "ValueError" /\ Ended
           /\ ~Called("fragment") /\ ~Called("generate") /\ ~Called("write")

C6_Witness == pc = "done" /\ duplicates /\ Called("removeAllDuplicates")

(***************************************************************************)
(* C7: the finally clause is never held up; when main is done the kernel   *)
(* was finalized exactly once, by the last kernel call of the run;         *)
(* after an exception no stage but the finally clause runs, and no stage   *)
(* runs twice.                                                             *)
(***************************************************************************)
C7_FinalizedExactlyOnce ==
    /\ pc = "finally" => ENABLED Finalize
    /\ Count("finalize") = (IF pc = "done" THEN 1 ELSE 0)
    /\ pc = "done" => calls[Len(calls)] = "finalize"
    /\ error # "none" => Ended
    /\ \A i, j \in 1..Len(stages) : stages[i] = stages[j] => i = j

C7_Witness == pc = "done" /\ error = "SystemExit" /\ Count("finalize") = 1

(***************************************************************************)
(* C8: with the solver configuration asked for and every body name asked   *)
(* of the kernel matching a material rule, the run ends without an error,  *)
(* the configuration and the bootstrap file written, with one body for     *)
(* each imported volume and one air body.                                  *)
(***************************************************************************)
C8_NoForceIsNoError ==
    (/\ pc = "done" /\ args.generate_elmer_files /\ Ran("elmer")
     /\ \A i \in 1..Len(entity_names) : name_to_material(entity_names[i]).ok) =>
        /\ error = "none"
        /\ {"elmer_config_file", "ELMERSOLVER_STARTINFO"} \subseteq written
        /\ Len(elmer.bodies) = Len(object_volumes) + 1
        /\ Cardinality({i \in 1..Len(elmer.bodies) :
                            elmer.bodies[i].id = air_volume.tag}) = 1

(***************************************************************************)
(* name_to_material applied on its own to one name.                        *)
(***************************************************************************)
UnknownPart == ShapesPrefix \o <<"u","n","k","n","o","w","n","_","p","a","r","t">>

MaterialBases ==
    {cases[i].pattern : i \in 1..Len(cases)} \cup
    {UnknownPart, Magnet \o <<"0","_","0","_">>, ShapesPrefix \o <<"a","i">>,
     <<"x">> \o ShapesPrefix \o <<"a","i","r">>, <<>>}

MaterialSuffixes == {<<>>, <<"_","7">>, <<"-","1">>}

MaterialNames ==
    {b \o x : b \in MaterialBases \cup {LowerText(c) : c \in MaterialBases}
                    \cup {UpperText(c) : c \in MaterialBases},
              x \in MaterialSuffixes}

InitMaterial == MainInit /\ arg \in MaterialNames /\ result = Pending

\* elmer_config.py lines 6-21, called with arg
ApplyMaterial ==
    /\ result = Pending
    /\ result' = name_to_material(arg)
    /\ UNCHANGED <<pc, stages, error, calls, args, sizing, input_file,
                   unit_name, scale_factor, geometry, written, elmer,
                   entity_names, arg>>

SpecMaterial == InitMaterial /\ [][ApplyMaterial]_vars

(***************************************************************************)
(* C9: name_to_material returns the material id of the first rule, in      *)
(* table order, whose pattern is a prefix of the name with letter case     *)
(* ignored; names that differ only in case get the same answer;            *)
(* "Shapes/magnet_0_0_-1" and "shapes/magnet_0_0_-1" get the id of that    *)
(* pattern; a name no rule matches gets a ValueError and no id.            *)
(***************************************************************************)
C9_Hits(name) ==
    {i \in 1..Len(cases) :
        /\ Len(name) >= Len(cases[i].pattern)
        /\ \A k \in 1..Len(cases[i].pattern) :
               ToLower(name[k]) = ToLower(cases[i].pattern[k])}

C9_FirstMatchWins ==
    result # Pending =>
        /\ IF C9_Hits(arg) = {}
           THEN ~result.ok /\ result.error = "ValueError" /\ result.value = <<>>
           ELSE /\ result.ok
                /\ result.value = cases[MinOf(C9_Hits(arg))].material_id
        /\ result = name_to_material(LowerText(arg))
        /\ result = name_to_material(UpperText(arg))
        /\ LowerText(arg) = LowerText(cases[7].pattern) =>
               result.ok /\ result.value = cases[7].material_id
        /\ arg = UnknownPart => ~result.ok

C9_Witness ==
    /\ arg = LowerText(cases[7].pattern) /\ arg # cases[7].pattern
    /\ result.ok /\ result.value = 7

(***************************************************************************)
(* C10, what the file holds, read off its characters.                      *)
(***************************************************************************)
\* the trimmed first line is the marker S, blanks or none, then digits only
C10_StartLine(file, blanks) ==
    /\ Len(file) > 0
    /\ LET t == Strip(file[1])
       IN  /\ Len(t) >= 2 /\ t[1] = "S" /\ IsDigit(t[Len(t)])
           /\ \A j \in 2..Len(t) :
                  \/ IsDigit(t[j])
                  \/ /\ blanks /\ t[j] \in Whitespace
                     /\ \A k \in 2..j : ~IsDigit(t[k])

\* the lines that carry G in column 73
C10_Cards(file) == {i \in 1..Len(file) : Len(file[i]) >= 73 /\ file[i][73] = "G"}

\* the p-th character of the 72-column prefixes of those lines, in file order
C10_Char(file, p) ==
    LET n == ((p - 1) \div 72) + 1
        i == CHOOSE c \in C10_Cards(file) :
                 Cardinality({d \in C10_Cards(file) : d <= c}) = n
    IN  file[i][((p - 1) % 72) + 1]

\* where the parameter delimiter stands after the two leading characters
C10_Cuts(file) ==
    {p \in 3..(72 * Cardinality(C10_Cards(file))) :
        C10_Char(file, p) = C10_Char(file, 1)}

\* the field with 12 delimiters before it
C10_Field12(file) ==
    LET cuts == C10_Cuts(file)
        from == CHOOSE p \in cuts : Cardinality({q \in cuts : q < p}) = 11
        to == CHOOSE p \in cuts : Cardinality({q \in cuts : q < p}) = 12
    IN  [k \in 1..(to - from - 1) |-> C10_Char(file, from + k)]

\* the three conditions, and the units name they give
C10_Facts ==
    [f \in 1..Len(Files) |->
        LET wellFormed == /\ C10_Cards(Files[f]) # {}
                          /\ Cardinality(C10_Cuts(Files[f])) + 1 >= 15
        IN  [loose |-> C10_StartLine(Files[f], TRUE) /\ wellFormed,
             strict |-> C10_StartLine(Files[f], FALSE) /\ wellFormed,
             units |-> IF wellFormed
                       THEN decode_hollerith(Strip(C10_Field12(Files[f])))
                       ELSE <<>>]]

\* the stage that raised
FailedStage ==
    IF error = "none" THEN "none"
    ELSE stages[Len(stages) - (IF pc = "done" THEN 1 ELSE 0)]

\* get_iges_units has returned a units name
YieldedUnits == Ran("units") /\ ~(FailedStage = "units" /\ error = "ValueError")

(***************************************************************************)
(* C10 as stated: a units name is yielded only when the trimmed first line *)
(* is the marker S followed by digits and nothing else, some line carries  *)
(* G in column 73 and the record has at least 15 fields, and it is then    *)
(* field 12 stripped and decoded; in each other case the run fails with    *)
(* an error and imports nothing.                                           *)
(***************************************************************************)
C10_UnitsOnlyFromStrictStart ==
    (Ran("check_file") /\ input_file # MissingFile) =>
        IF C10_Facts[input_file].strict
        THEN YieldedUnits => unit_name = C10_Facts[input_file].units
        ELSE /\ ~YieldedUnits
             /\ pc = "units" \/ (error # "none" /\ Ended)
             /\ ~Called("importShapes")

(***************************************************************************)
(* C10 amended: the same, with blanks allowed between the marker S and     *)
(* the digits of the first line.                                           *)
(***************************************************************************)
C10_UnitsOnlyFromStartCard ==
    (Ran("check_file") /\ input_file # MissingFile) =>
        IF C10_Facts[input_file].loose
        THEN YieldedUnits => unit_name = C10_Facts[input_file].units
        ELSE /\ ~YieldedUnits
             /\ pc = "units" \/ (error # "none" /\ Ended)
             /\ ~Called("importShapes")

C10_Witness ==
    /\ pc = "done" /\ YieldedUnits /\ unit_name = <<"F", "T">>
    /\ Cardinality(C10_Cards(Files[input_file])) = 2

(***************************************************************************)
(* decode_hollerith applied on its own to one string.                      *)
(***************************************************************************)
MaxText == 3

HollerithAlphabet == {"1", "2", "H", "A"}

HollerithTexts ==
    UNION {[1..n -> HollerithAlphabet] : n \in 0..MaxText}
        \cup {<<"4","H","T","E","S","T">>, <<"2","H","A","B">>,
              <<"1","0","H","A","B","C">>, <<"2","H","A","\n","B">>,
              <<" ","2","H","A","B">>, <<"2","h","A","B">>}

InitHollerith == MainInit /\ arg \in HollerithTexts /\ result = Pending

\* iges.py lines 16-25, called with arg
ApplyHollerith ==
    /\ result = Pending
    /\ result' = Ok(decode_hollerith(arg))
    /\ UNCHANGED <<pc, stages, error, calls, args, sizing, input_file,
                   unit_name, scale_factor, geometry, written, elmer,
                   entity_names, arg>>

SpecHollerith == InitHollerith /\ [][ApplyHollerith]_vars

\* s is <decimal-length>H<text> with d digits of length
C11_Counted(s, d) ==
    /\ d >= 1 /\ Len(s) > d /\ s[d + 1] = "H"
    /\ \A i \in 1..d : IsDigit(s[i])

(***************************************************************************)
(* C11: decode_hollerith returns a string that is not of the form          *)
(* <decimal-length>H<text> unchanged; of a string of that form it returns  *)
(* the declared number of characters that follow the H, so the length of   *)
(* the result is the declared length; "4HTEST" gives "TEST" and "2HAB"     *)
(* gives "AB".                                                             *)
(***************************************************************************)
C11_DeclaredLengthIsReturned ==
    result # Pending =>
        /\ (\A d \in 1..Len(arg) : ~C11_Counted(arg, d)) => result.value = arg
        /\ \A d \in 1..Len(arg) :
               C11_Counted(arg, d) =>
                   LET declared == ParseInt(SubSeq(arg, 1, d))
                   IN  /\ Len(result.value) = declared
                       /\ \A k \in 1..Len(result.value) :
                              result.value[k] = arg[d + 1 + k]
        /\ arg = <<"4","H","T","E","S","T">> => result.value = <<"T","E","S","T">>
        /\ arg = <<"2","H","A","B">> => result.value = <<"A","B">>

\* the sum of the three edge lengths of the padded domain
C12_EdgeSum == (bbox.xmax - bbox.xmin) + (bbox.ymax - bbox.ymin)
                   + (bbox.zmax - bbox.zmin)

\* the outer size is the one the claim gives for the divisor
C12_OuterSizeIs(divisor) ==
    IF args.air_mesh_size = 0
    THEN air_mesh_size = RoundHalfEven(C12_EdgeSum, divisor)
    ELSE air_mesh_size = Mul(args.air_mesh_size, scale_factor)

(***************************************************************************)
(* C12: with no outer size given on the command line the outer size is     *)
(* round(sum of the padded domain's three edge lengths / divisor, 5), the  *)
(* divisor 20 with --draft, 40 with --fine and 30 with neither; a given    *)
(* outer size is used, scaled to metres, whatever the preset; and no run   *)
(* works out an outer size with --draft and --fine both set.               *)
(***************************************************************************)
C12_OuterSizeByPreset ==
    Ran("sizes") =>
        /\ (args.draft /\ ~args.fine) => C12_OuterSizeIs(20)
        /\ (args.fine /\ ~args.draft) => C12_OuterSizeIs(40)
        /\ (~args.draft /\ ~args.fine) => C12_OuterSizeIs(30)
        /\ ~(args.draft /\ args.fine)

(***************************************************************************)
(* The air boundary list of create_mesh.py lines 302-306, worked out on    *)
(* its own from one surface enumeration.                                   *)
(***************************************************************************)
MaxTag == 9

\* str() of an integer n >= 0
RECURSIVE DecimalText(_)
DecimalText(n) ==
    IF n < 10 THEN <<Digits[n + 1]>>
    ELSE DecimalText(n \div 10) \o <<Digits[(n % 10) + 1]>>

\* line 306: " ".join(map(str, air_boundary_surface_ids))
AirBoundaries(all_surfaces) ==
    LET ids == AirBoundarySurfaceIds(all_surfaces)
    IN  Join([i \in 1..Len(ids) |-> DecimalText(ids[i])], " ")

\* the tags of S in rising order
RECURSIVE TagList(_)
TagList(S) ==
    IF S = {} THEN <<>>
    ELSE LET m == MinOf(S) IN <<m>> \o TagList(S \ {m})

\* gmsh.model.getEntities(dim=2): six surfaces or more, the tags rising
SurfaceEnumerations ==
    {TagList(S) : S \in {T \in SUBSET (1..MaxTag) : Cardinality(T) >= 6}}

InitSurfaces == MainInit /\ arg \in SurfaceEnumerations /\ result = Pending

\* lines 303-306, all_surfaces holding the tags of arg
ApplySurfaces ==
    /\ result = Pending
    /\ result' = Ok(AirBoundaries(arg))
    /\ UNCHANGED <<pc, stages, error, calls, args, sizing, input_file,
                   unit_name, scale_factor, geometry, written, elmer,
                   entity_names, arg>>

SpecSurfaces == InitSurfaces /\ [][ApplySurfaces]_vars

====
